---- MODULE Spec2Model ----
(***************************************************************************)
(* minituna: FrozenTrial, Storage, JournalStorage, Pruner and Study, as    *)
(* state machines.  The storage classes are modelled as operators from a   *)
(* storage object (a record of its fields) to the object after the call    *)
(* and the call's outcome, so that the handlers of Study.optimize can      *)
(* compose several calls in one step.                                      *)
(***************************************************************************)
EXTENDS Integers, Sequences, FiniteSets, TLC

VARIABLES
    storage,    \* the Study's storage object: its fields, and myfile.json
    ret,        \* the outcome of the last call made on the storage or a Trial
    pruner,     \* the Study's Pruner: n_startup_trials, n_warmup_steps
    optimize    \* the frame of Study.optimize: pc, where it stands;
                \* n_trials, its argument; i, the iterations it has started;
                \* trial_id and value, its locals; calls, the calls the
                \* running objective has made on Trial handles; exc, the
                \* exception that left it

\* ------------------------------------------------------------------ bounds

MaxTrials == 2      \* trials a storage holds at most
MaxValue == 2       \* objective / intermediate values are 1..MaxValue and NaN
MaxApiValue == 1    \* values of the storage API calls: 1..MaxApiValue and NaN
MaxApiStep == 0     \* steps of the set_trial_intermediate_value calls: 0..MaxApiStep
MaxStep == 1        \* steps the objective reports: 0..MaxStep
MaxLog == 3         \* entries appended to JournalStorage.logs at most
MaxFile == 4        \* records written to myfile.json at most
MaxN == 2           \* n_trials passed to Study.optimize at most
MaxCalls == 2       \* calls one run of the objective makes on Trial handles
MaxStartup == 1     \* Pruner.n_startup_trials is 0..MaxStartup
MaxWarmup == 1      \* Pruner.n_warmup_steps is 0..MaxWarmup
MaxEarlier == 2     \* trials that ended before the trial a pruner judges
MaxChoices == 2     \* choices of a CategoricalDistribution at most
MaxInt == 2         \* low and high of an Int or Float distribution: 0..MaxInt
MaxSuggests == 2    \* suggest calls made on one trial at most
MaxCallerCalls == 5 \* calls and assignments the holder of a snapshot makes

\* ------------------------------------------------------------ Python values

\* Optional[float]: None, the float NaN, and the ordinary numbers 1..MaxValue.
None == 0 - 2
NaN == 0 - 1
Numbers == 1..MaxValue
Values == Numbers \cup {NaN}
Steps == 0..MaxStep
ApiSteps == 0..MaxApiStep
ApiValues == (1..MaxApiValue) \cup {NaN}
TrialIds == 0..(MaxTrials - 1)
TrialStateType == {"running", "completed", "pruned", "failed"}
ParamNames == {"x"}

\* a < b on Python floats: every comparison with NaN is false.
PyLt(a, b) == a # NaN /\ b # NaN /\ a < b
PyGt(a, b) == a # NaN /\ b # NaN /\ a > b

\* {} : a dict is a function on the set of its keys.
EmptyDict == [k \in {} |-> None]
\* d[key] = val
DictSet(d, key, val) ==
    [k \in (DOMAIN d) \cup {key} |-> IF k = key THEN val ELSE d[k]]

\* self.trials[trial_id] of a Python list of length n: the 1-based position,
\* 0 when the index is out of range (IndexError).
ListIndex(n, i) ==
    IF i >= 0 /\ i < n THEN i + 1
    ELSE IF i < 0 /\ i >= 0 - n THEN n + i + 1
    ELSE 0

\* ------------------------------------------------------------ distributions

IntDistribution(low, high) == [kind |-> "Int", low |-> low, high |-> high]
CategoricalDistribution(choices) == [kind |-> "Categorical", choices |-> choices]
\* The distributions and internal values the storage calls are made with.
ParamArgs == {[distribution |-> IntDistribution(0, 1), value |-> 1]}
\* str(distribution): object.__str__, the class name and an address.
Str(distribution) == [kind |-> "str", text |-> distribution.kind]

\* ------------------------------------------- parameter values, conversions

\* The Python values a parameter takes, each with its type: None, a bool, an
\* int, a float of integral value, and the k-th of some distinct strings.
PyNone == [type |-> "NoneType", v |-> 0]
PyBool(b) == [type |-> "bool", v |-> IF b THEN 1 ELSE 0]
PyInt(n) == [type |-> "int", v |-> n]
PyFloat(n) == [type |-> "float", v |-> n]
PyStr(k) == [type |-> "str", v |-> k]

NumericTypes == {"bool", "int", "float"}
\* a == b: bool, int and float compare by their number (True == 1, 0 == 0.0).
PyEq(a, b) ==
    IF a.type \in NumericTypes /\ b.type \in NumericTypes THEN a.v = b.v
    ELSE a = b

FloatDistribution(low, high, log) ==
    [kind |-> "Float", low |-> low, high |-> high, log |-> log]

\* A conversion returns, or raises.
Returns(x) == [err |-> "ok", ret |-> x]
Raises(exc) == [err |-> exc, ret |-> PyNone]

\* choices.index(x): the position, from 0, of the first element == x.
Index(choices, x) ==
    IF \E k \in 1..Len(choices) : PyEq(choices[k], x)
    THEN Returns(PyInt((CHOOSE k \in 1..Len(choices) :
                          /\ PyEq(choices[k], x)
                          /\ \A j \in 1..(k - 1) : ~PyEq(choices[j], x)) - 1))
    ELSE Raises("ValueError")

\* choices[i], for an int i.
Item(choices, i) ==
    IF ListIndex(Len(choices), i) = 0 THEN Raises("IndexError")
    ELSE Returns(choices[ListIndex(Len(choices), i)])

\* distribution.to_internal_repr(external_repr); a str has no such method.
to_internal_repr(distribution, external_repr) ==
    CASE distribution.kind = "Float" -> Returns(external_repr)
      [] distribution.kind = "Int" ->
            IF external_repr.type \in NumericTypes
            THEN Returns(PyFloat(external_repr.v))
            ELSE Raises("TypeError")
      [] distribution.kind = "Categorical" ->
            Index(distribution.choices, external_repr)
      [] OTHER -> Raises("AttributeError")

\* distribution.to_external_repr(internal_repr); a str has no such method.
to_external_repr(distribution, internal_repr) ==
    CASE distribution.kind = "Float" -> Returns(internal_repr)
      [] distribution.kind = "Int" ->
            IF internal_repr.type \in NumericTypes
            THEN Returns(PyInt(internal_repr.v))
            ELSE Raises("TypeError")
      [] distribution.kind = "Categorical" ->
            IF internal_repr.type \in NumericTypes
            THEN Item(distribution.choices, internal_repr.v)
            ELSE Raises("TypeError")
      [] OTHER -> Raises("AttributeError")

\* -------------------------------------------------------------- FrozenTrial

FrozenTrial(trial_id, state) ==
    [trial_id |-> trial_id, state |-> state, value |-> None,
     intermediate_values |-> EmptyDict, internal_params |-> EmptyDict,
     distributions |-> EmptyDict]

\* is_finished that takes only completed trials for finished.
is_finished_completed_only(trial) == trial.state = "completed"

is_finished(trial) == trial.state # "running"

SetMax(S) == CHOOSE m \in S : \A x \in S : x <= m

\* last_step that takes the first step reported for the last.
last_step_min(trial) ==
    IF DOMAIN trial.intermediate_values = {} THEN None
    ELSE CHOOSE m \in DOMAIN trial.intermediate_values :
            \A x \in DOMAIN trial.intermediate_values : m <= x

last_step(trial) ==
    IF DOMAIN trial.intermediate_values = {} THEN None
    ELSE SetMax(DOMAIN trial.intermediate_values)

\* --------------------------------------------------------- calls' outcomes

\* A call returns {st: the storage after it, err: "ok" or the exception
\* raised, ret: the value returned}.
Ok(st, val) == [st |-> st, err |-> "ok", ret |-> val]
Raise(st, exc) == [st |-> st, err |-> exc, ret |-> None]
\* r; then F on its outcome, unless r raised: the exception goes up. (x is
\* bound to the outcome of r, which is computed once.)
Then(r, F(_)) ==
    CHOOSE y \in {IF x.err # "ok" THEN x ELSE F(x) : x \in {r}} : TRUE


\* ------------------------------------------------------------------ Storage

NewStorage ==
    [kind |-> "Storage", trials |-> <<>>, logs |-> <<>>,
     last_created_trial_id |-> 0 - 1, next_op_id |-> 0, file |-> <<>>]

\* create_new_trial that counts the trial ids from 1.
Storage_create_new_trial_from_one(st) ==
    LET trial_id == Len(st.trials) + 1
        trial == FrozenTrial(trial_id, "running")
    IN  Ok([st EXCEPT !.trials = Append(@, trial)], trial_id)

Storage_create_new_trial(st) ==
    LET trial_id == Len(st.trials)
        trial == FrozenTrial(trial_id, "running")
    IN  Ok([st EXCEPT !.trials = Append(@, trial)], trial_id)

\* copy.deepcopy: the snapshot is the value of the trials.
Storage_get_all_trials(st) == Ok(st, st.trials)

Storage_get_trial(st, trial_id) ==
    LET i == ListIndex(Len(st.trials), trial_id)
    IN  IF i = 0 THEN Raise(st, "IndexError") ELSE Ok(st, st.trials[i])

\* min(completed_trials, key=lambda t: t.value): the scan keeps the first
\* item and replaces it by an item whose key is smaller; comparing None with
\* a float is a TypeError; an empty argument is a ValueError.
RECURSIVE MinScan(_, _, _)
MinScan(items, k, best) ==
    IF k > Len(items) THEN [err |-> "ok", ret |-> best]
    ELSE IF items[k].value = None \/ best.value = None
         THEN [err |-> "TypeError", ret |-> None]
    ELSE IF PyLt(items[k].value, best.value) THEN MinScan(items, k + 1, items[k])
    ELSE MinScan(items, k + 1, best)

PyMin(items) ==
    IF Len(items) = 0 THEN [err |-> "ValueError", ret |-> None]
    ELSE MinScan(items, 2, items[1])

IsCompleted(t) == t.state = "completed"

\* The outcome of min(...), as the outcome of the call on st.
Returned(st, best_trial) ==
    IF best_trial.err # "ok" THEN Raise(st, best_trial.err)
    ELSE Ok(st, best_trial.ret)

Storage_get_best_trial(st) ==
    Returned(st, PyMin(SelectSeq(st.trials, IsCompleted)))

\* set_trial_value that checks the trial and does not store the value.
Storage_set_trial_value_lost(st, trial_id, value) ==
    LET i == ListIndex(Len(st.trials), trial_id)
    IN  IF i = 0 THEN Raise(st, "IndexError")
        ELSE IF is_finished(st.trials[i]) THEN Raise(st, "AssertionError")
        ELSE Ok(st, None)

Storage_set_trial_value(st, trial_id, value) ==
    LET i == ListIndex(Len(st.trials), trial_id)
    IN  IF i = 0 THEN Raise(st, "IndexError")
        ELSE IF is_finished(st.trials[i]) THEN Raise(st, "AssertionError")
        ELSE Ok([st EXCEPT !.trials[i].value = value], None)

\* set_trial_state that checks the trial and keeps the state it has.
Storage_set_trial_state_kept(st, trial_id, state) ==
    LET i == ListIndex(Len(st.trials), trial_id)
    IN  IF i = 0 THEN Raise(st, "IndexError")
        ELSE IF is_finished(st.trials[i]) THEN Raise(st, "AssertionError")
        ELSE Ok(st, None)

Storage_set_trial_state(st, trial_id, state) ==
    LET i == ListIndex(Len(st.trials), trial_id)
    IN  IF i = 0 THEN Raise(st, "IndexError")
        ELSE IF is_finished(st.trials[i]) THEN Raise(st, "AssertionError")
        ELSE Ok([st EXCEPT !.trials[i].state = state], None)

\* set_trial_param without its assert.
Storage_set_trial_param_unchecked(st, trial_id, name, distribution, value) ==
    LET i == ListIndex(Len(st.trials), trial_id)
    IN  IF i = 0 THEN Raise(st, "IndexError")
        ELSE Ok([st EXCEPT
                   !.trials[i].distributions = DictSet(@, name, distribution),
                   !.trials[i].internal_params = DictSet(@, name, value)],
                None)

Storage_set_trial_param(st, trial_id, name, distribution, value) ==
    LET i == ListIndex(Len(st.trials), trial_id)
    IN  IF i = 0 THEN Raise(st, "IndexError")
        ELSE IF is_finished(st.trials[i]) THEN Raise(st, "AssertionError")
        ELSE Ok([st EXCEPT
                   !.trials[i].distributions = DictSet(@, name, distribution),
                   !.trials[i].internal_params = DictSet(@, name, value)],
                None)

Storage_set_trial_intermediate_value(st, trial_id, step, value) ==
    LET i == ListIndex(Len(st.trials), trial_id)
    IN  IF i = 0 THEN Raise(st, "IndexError")
        ELSE IF is_finished(st.trials[i]) THEN Raise(st, "AssertionError")
        ELSE Ok([st EXCEPT
                   !.trials[i].intermediate_values = DictSet(@, step, value)],
                None)

\* minituna.py: set_trial_state_value(trial_id, state, value=None)
Storage_set_trial_state_value(st, trial_id, state, value) ==
    LET i == ListIndex(Len(st.trials), trial_id)
    IN  IF i = 0 THEN Raise(st, "IndexError")
        ELSE IF is_finished(st.trials[i]) THEN Raise(st, "AssertionError")
        ELSE Ok([st EXCEPT
                   !.trials[i].state = state,
                   !.trials[i].value = IF value # None THEN value ELSE @],
                None)

\* ----------------------------------------------------------- JournalStorage

NewJournalStorage ==
    [kind |-> "JournalStorage", trials |-> <<>>, logs |-> <<>>,
     last_created_trial_id |-> 0 - 1, next_op_id |-> 0, file |-> <<>>]

\* Operation(enum.Enum): the value of each member.
OperationValue(op) ==
    CASE op = "CREATE_NEW_TRIAL" -> 0
      [] op = "SET_TRIAL_VALUE" -> 1
      [] op = "SET_TRIAL_STATE" -> 2
      [] op = "SET_TRIAL_PARAM" -> 3
      [] op = "SET_TRIAL_INTERMEDIATE_VALUE" -> 4

Journal(op, data) == [op |-> op, data |-> data]

json_serialize(j) == [op |-> OperationValue(j.op), data |-> j.data]

\* _write_json_to_file that writes nothing.
write_json_to_file_dropped(st, j) == st

\* open("myfile.json", "a"); json.dump(j, f); f.write("\n")
write_json_to_file(st, j) == [st EXCEPT !.file = Append(@, j)]

\* The body of the loop of _sync for one log entry: {st, err}.
SyncEntry(st, log) ==
    LET written == write_json_to_file(st, json_serialize(Journal(log.op, log.data)))
    IN  IF log.op = "CREATE_NEW_TRIAL"
        THEN LET trial_id == Len(written.trials)
                 trial == FrozenTrial(trial_id, "running")
             IN  [st |-> [written EXCEPT !.trials = Append(@, trial),
                                         !.last_created_trial_id = trial_id],
                  err |-> "ok", ret |-> None]
        ELSE LET i == ListIndex(Len(written.trials), log.data.trial_id)
             IN  IF i = 0 THEN Raise(written, "IndexError")
                 ELSE IF is_finished(written.trials[i])
                      THEN Raise(written, "AssertionError")
                 ELSE IF log.op = "SET_TRIAL_VALUE"
                      THEN [st |-> [written EXCEPT !.trials[i].value = log.data.value],
                            err |-> "ok", ret |-> None]
                 ELSE IF log.op = "SET_TRIAL_STATE"
                      THEN [st |-> [written EXCEPT !.trials[i].state = log.data.state],
                            err |-> "ok", ret |-> None]
                 ELSE IF log.op = "SET_TRIAL_PARAM"
                      THEN [st |-> [written EXCEPT
                                      !.trials[i].distributions =
                                          DictSet(@, log.data.name, log.data.distribution),
                                      !.trials[i].internal_params =
                                          DictSet(@, log.data.name, log.data.value)],
                            err |-> "ok", ret |-> None]
                 ELSE IF log.op = "SET_TRIAL_INTERMEDIATE_VALUE"
                      THEN [st |-> [written EXCEPT
                                      !.trials[i].intermediate_values =
                                          DictSet(@, log.data.step, log.data.value)],
                            err |-> "ok", ret |-> None]
                 ELSE Raise(written, "RuntimeError")

\* for log in self.logs[self.next_op_id:], from position k (1-based); the
\* cursor moves only when the loop ends without an exception.
RECURSIVE SyncLoop(_, _)
SyncLoop(st, k) ==
    IF k > Len(st.logs) THEN Ok([st EXCEPT !.next_op_id = Len(st.logs)], None)
    ELSE Then(SyncEntry(st, st.logs[k]), LAMBDA r : SyncLoop(r.st, k + 1))

\* _sync that reads the log from its start, not from the cursor.
JournalStorage_sync_from_start(st) == SyncLoop(st, 1)

JournalStorage_sync(st) == SyncLoop(st, st.next_op_id + 1)

JournalStorage_create_new_trial(st) ==
    Then(JournalStorage_sync(
             [st EXCEPT !.logs = Append(@, Journal("CREATE_NEW_TRIAL", EmptyDict))]),
         LAMBDA synced : Ok(synced.st, synced.st.last_created_trial_id))

JournalStorage_set_trial_value(st, trial_id, value) ==
    Ok([st EXCEPT !.logs = Append(@,
            Journal("SET_TRIAL_VALUE", [trial_id |-> trial_id, value |-> value]))],
       None)

JournalStorage_set_trial_state(st, trial_id, state) ==
    Ok([st EXCEPT !.logs = Append(@,
            Journal("SET_TRIAL_STATE", [trial_id |-> trial_id, state |-> state]))],
       None)

JournalStorage_set_trial_param(st, trial_id, name, distribution, value) ==
    Ok([st EXCEPT !.logs = Append(@,
            Journal("SET_TRIAL_PARAM",
                    [trial_id |-> trial_id, name |-> name,
                     distribution |-> Str(distribution), value |-> value]))],
       None)

JournalStorage_set_trial_intermediate_value(st, trial_id, step, value) ==
    Ok([st EXCEPT !.logs = Append(@,
            Journal("SET_TRIAL_INTERMEDIATE_VALUE",
                    [trial_id |-> trial_id, step |-> step, value |-> value]))],
       None)

JournalStorage_get_all_trials(st) ==
    Then(JournalStorage_sync(st), LAMBDA synced : Ok(synced.st, synced.st.trials))

JournalStorage_get_trial(st, trial_id) ==
    Then(JournalStorage_sync(st),
         LAMBDA synced :
            LET i == ListIndex(Len(synced.st.trials), trial_id)
            IN  IF i = 0 THEN Raise(synced.st, "IndexError")
                ELSE Ok(synced.st, synced.st.trials[i]))

JournalStorage_get_best_trial(st) ==
    Then(JournalStorage_sync(st),
         LAMBDA synced :
            Returned(synced.st, PyMin(SelectSeq(synced.st.trials, IsCompleted))))

\* --------------------------------------- self.study.storage: either class

create_new_trial(st) ==
    IF st.kind = "Storage" THEN Storage_create_new_trial(st)
    ELSE JournalStorage_create_new_trial(st)

get_all_trials(st) ==
    IF st.kind = "Storage" THEN Storage_get_all_trials(st)
    ELSE JournalStorage_get_all_trials(st)

get_trial(st, id) ==
    IF st.kind = "Storage" THEN Storage_get_trial(st, id)
    ELSE JournalStorage_get_trial(st, id)

get_best_trial(st) ==
    IF st.kind = "Storage" THEN Storage_get_best_trial(st)
    ELSE JournalStorage_get_best_trial(st)

set_trial_value(st, id, v) ==
    IF st.kind = "Storage" THEN Storage_set_trial_value(st, id, v)
    ELSE JournalStorage_set_trial_value(st, id, v)

set_trial_state(st, id, state) ==
    IF st.kind = "Storage" THEN Storage_set_trial_state(st, id, state)
    ELSE JournalStorage_set_trial_state(st, id, state)

set_trial_intermediate_value(st, id, step, v) ==
    IF st.kind = "Storage" THEN Storage_set_trial_intermediate_value(st, id, step, v)
    ELSE JournalStorage_set_trial_intermediate_value(st, id, step, v)

\* ------------------------------------------------------------------- Pruner

Pruner(n_startup_trials, n_warmup_steps) ==
    [n_startup_trials |-> n_startup_trials, n_warmup_steps |-> n_warmup_steps]

IsNumber(x) == x # NaN

\* xs in ascending order.
RECURSIVE Insert(_, _)
Insert(x, s) ==
    IF s = <<>> THEN <<x>>
    ELSE IF x <= Head(s) THEN <<x>> \o s
    ELSE <<Head(s)>> \o Insert(x, Tail(s))

RECURSIVE Sort(_)
Sort(xs) == IF xs = <<>> THEN <<>> ELSE Insert(Head(xs), Sort(Tail(xs)))

\* np.nanmedian(np.array(xs)), as twice the median so that the mean of the
\* two middle values stays an integer: the NaN entries are dropped, and the
\* median of nothing is NaN.
nanmedian2(xs) ==
    LET nums == Sort(SelectSeq(xs, IsNumber))
        n == Len(nums)
    IN  IF n = 0 THEN NaN
        ELSE IF n % 2 = 1 THEN 2 * nums[(n + 1) \div 2]
        ELSE nums[n \div 2] + nums[n \div 2 + 1]

\* v >= median, in the place of v > median.
GeMedian(v, median2) == v # NaN /\ median2 # NaN /\ 2 * v >= median2

\* v > median, for the median given as nanmedian2 gives it.
GtMedian(v, median2) == v # NaN /\ median2 # NaN /\ 2 * v > median2

\* [t.intermediate_values[step] for t in trials if step in t.intermediate_values]
ValuesAt(trials, step) ==
    LET HasStep(t) == step \in DOMAIN t.intermediate_values
        having == SelectSeq(trials, HasStep)
    IN  [k \in 1..Len(having) |-> having[k].intermediate_values[step]]

\* prune that does not count the completed trials.
Judge_without_startup(pr, all_trials, trial) ==
    LET step == last_step(trial)
    IN  IF step = None \/ step < pr.n_warmup_steps THEN FALSE
        ELSE GtMedian(trial.intermediate_values[step],
                      nanmedian2(ValuesAt(all_trials, step)))

\* prune, from the list get_all_trials returned: the answer.
Judge(pr, all_trials, trial) ==
    LET n == Len(SelectSeq(all_trials, IsCompleted))
        step == last_step(trial)
    IN  IF n < pr.n_startup_trials THEN FALSE
        ELSE IF step = None \/ step < pr.n_warmup_steps THEN FALSE
        ELSE GtMedian(trial.intermediate_values[step],
                      nanmedian2(ValuesAt(all_trials, step)))

Pruner_prune(pr, st, trial) ==
    Then(get_all_trials(st), LAMBDA all : Ok(all.st, Judge(pr, all.ret, trial)))

\* -------------------------------------------------------------------- Trial

\* report that stores nothing.
Trial_report_unstored(st, id, v, step) == Ok(st, None)

Trial_report(st, id, v, step) == set_trial_intermediate_value(st, id, step, v)

Trial_should_prune(pr, st, id) ==
    Then(get_trial(st, id), LAMBDA trial : Pruner_prune(pr, trial.st, trial.ret))

\* ------------------------------------------------- the storage API, driven

vars == <<storage, ret, pruner, optimize>>

\* The model's bounds on what a storage holds.
Within(st) ==
    /\ Len(st.trials) <= MaxTrials
    /\ Len(st.logs) <= MaxLog
    /\ Len(st.file) <= MaxFile

\* ret: the call, the trial id it was given, the exception it raised or
\* "ok", and val: for should_prune the answer, for report the value and the
\* step reported, for create_new_trial of the storage API the id returned,
\* FALSE for the other calls.
Outcome(op, id, err, val) == [op |-> op, trial_id |-> id, err |-> err, val |-> val]
NoCall == Outcome("none", None, "ok", FALSE)

\* optimize is not running.
Frame(pc, n, i, id, v, c, exc) ==
    [pc |-> pc, n_trials |-> n, i |-> i, trial_id |-> id, value |-> v,
     calls |-> c, exc |-> exc]
Idle == Frame("idle", 0, 0, None, None, 0, "none")

\* A call is made: the storage becomes r.st, and ret records the call.
Recorded(op, id, r) ==
    /\ storage' = r.st
    /\ ret' = Outcome(op, id, r.err, FALSE)

\* A call of the storage API is made, within the model's bounds.
Called(op, id, r) ==
    /\ Within(r.st)
    /\ storage' = r.st
    /\ ret' = Outcome(op, id, r.err, FALSE)
    /\ UNCHANGED <<pruner, optimize>>

\* create_new_trial is called, within the model's bounds: ret records the id
\* it returns.
CalledCreate(r) ==
    /\ Within(r.st)
    /\ storage' = r.st
    /\ ret' = Outcome("create_new_trial", None, r.err,
                      IF r.err = "ok" THEN r.ret ELSE FALSE)
    /\ UNCHANGED <<pruner, optimize>>

Init ==
    /\ storage \in {NewStorage, NewJournalStorage}
    /\ ret = NoCall
    /\ pruner = Pruner(5, 0)
    /\ optimize = Idle

IsStorage == storage.kind = "Storage"
IsJournal == storage.kind = "JournalStorage"

Do_Storage_create_new_trial ==
    /\ IsStorage
    /\ CalledCreate(Storage_create_new_trial(storage))

Do_Storage_get_all_trials ==
    /\ IsStorage
    /\ Called("get_all_trials", None, Storage_get_all_trials(storage))

Do_Storage_get_trial ==
    /\ IsStorage
    /\ \E trial_id \in TrialIds :
          Called("get_trial", trial_id, Storage_get_trial(storage, trial_id))

Do_Storage_get_best_trial ==
    /\ IsStorage
    /\ Called("get_best_trial", None, Storage_get_best_trial(storage))

Do_Storage_set_trial_value ==
    /\ IsStorage
    /\ \E trial_id \in TrialIds, value \in ApiValues :
          Called("set_trial_value", trial_id,
                 Storage_set_trial_value(storage, trial_id, value))

Do_Storage_set_trial_state ==
    /\ IsStorage
    /\ \E trial_id \in TrialIds, state \in TrialStateType :
          Called("set_trial_state", trial_id,
                 Storage_set_trial_state(storage, trial_id, state))

Do_Storage_set_trial_param ==
    /\ IsStorage
    /\ \E trial_id \in TrialIds, name \in ParamNames, p \in ParamArgs :
          Called("set_trial_param", trial_id,
                 Storage_set_trial_param(storage, trial_id, name, p.distribution, p.value))

Do_Storage_set_trial_intermediate_value ==
    /\ IsStorage
    /\ \E trial_id \in TrialIds, step \in ApiSteps, value \in ApiValues :
          Called("set_trial_intermediate_value", trial_id,
                 Storage_set_trial_intermediate_value(storage, trial_id, step, value))

Do_Storage_set_trial_state_value ==
    /\ IsStorage
    /\ \E trial_id \in TrialIds, state \in TrialStateType, value \in ApiValues \cup {None} :
          Called("set_trial_state_value", trial_id,
                 Storage_set_trial_state_value(storage, trial_id, state, value))

Do_JournalStorage_create_new_trial ==
    /\ IsJournal
    /\ CalledCreate(JournalStorage_create_new_trial(storage))

Do_JournalStorage_get_all_trials ==
    /\ IsJournal
    /\ Called("get_all_trials", None, JournalStorage_get_all_trials(storage))

Do_JournalStorage_get_trial ==
    /\ IsJournal
    /\ \E trial_id \in TrialIds :
          Called("get_trial", trial_id, JournalStorage_get_trial(storage, trial_id))

Do_JournalStorage_get_best_trial ==
    /\ IsJournal
    /\ Called("get_best_trial", None, JournalStorage_get_best_trial(storage))

Do_JournalStorage_set_trial_value ==
    /\ IsJournal
    /\ \E trial_id \in TrialIds, value \in ApiValues :
          Called("set_trial_value", trial_id,
                 JournalStorage_set_trial_value(storage, trial_id, value))

Do_JournalStorage_set_trial_state ==
    /\ IsJournal
    /\ \E trial_id \in TrialIds, state \in TrialStateType :
          Called("set_trial_state", trial_id,
                 JournalStorage_set_trial_state(storage, trial_id, state))

Do_JournalStorage_set_trial_param ==
    /\ IsJournal
    /\ \E trial_id \in TrialIds, name \in ParamNames, p \in ParamArgs :
          Called("set_trial_param", trial_id,
                 JournalStorage_set_trial_param(storage, trial_id, name,
                                                p.distribution, p.value))

Do_JournalStorage_set_trial_intermediate_value ==
    /\ IsJournal
    /\ \E trial_id \in TrialIds, step \in ApiSteps, value \in ApiValues :
          Called("set_trial_intermediate_value", trial_id,
                 JournalStorage_set_trial_intermediate_value(storage, trial_id, step, value))

Next ==
    \/ Do_Storage_create_new_trial
    \/ Do_Storage_get_all_trials
    \/ Do_Storage_get_trial
    \/ Do_Storage_get_best_trial
    \/ Do_Storage_set_trial_value
    \/ Do_Storage_set_trial_state
    \/ Do_Storage_set_trial_param
    \/ Do_Storage_set_trial_intermediate_value
    \/ Do_Storage_set_trial_state_value
    \/ Do_JournalStorage_create_new_trial
    \/ Do_JournalStorage_get_all_trials
    \/ Do_JournalStorage_get_trial
    \/ Do_JournalStorage_get_best_trial
    \/ Do_JournalStorage_set_trial_value
    \/ Do_JournalStorage_set_trial_state
    \/ Do_JournalStorage_set_trial_param
    \/ Do_JournalStorage_set_trial_intermediate_value

Spec == Init /\ [][Next]_vars

\* ------------------------------------------------------------ Study.optimize

\* The pruners a study is made with.
Pruners == {Pruner(a, b) : a \in 0..MaxStartup, b \in 0..MaxWarmup}
\* The pruners of the studies whose optimize is run.
StudyPruners == {Pruner(0, 0), Pruner(MaxStartup, MaxWarmup)}

\* create_study(storage, sampler, pruner); study.optimize(objective, n).
InitStudy ==
    /\ storage \in {NewStorage, NewJournalStorage}
    /\ ret = NoCall
    /\ pruner \in StudyPruners
    /\ \E n \in 0..MaxN : optimize = Frame("loop", n, 0, None, None, 0, "none")

\* An exception leaves optimize.
Escapes(st, exc) ==
    /\ storage' = st
    /\ optimize' = [optimize EXCEPT !.pc = "raised", !.exc = exc]

\* The trial is over: the loop goes on.
NextIteration(st) ==
    /\ storage' = st
    /\ optimize' = [optimize EXCEPT !.pc = "loop"]

\* A handler of optimize has made its last call, r: an exception raised in a
\* handler leaves optimize.
Handled(r) == IF r.err = "ok" THEN NextIteration(r.st) ELSE Escapes(r.st, r.err)

\* except Exception: self.storage.set_trial_state(trial_id, "failed")
ExceptException(st) == Handled(set_trial_state(st, optimize.trial_id, "failed"))

\* trial_id = self.storage.create_new_trial() has returned or raised, outside
\* the try.
Created(r) ==
    /\ ret' = Outcome("create_new_trial", None, r.err, FALSE)
    /\ IF r.err = "ok"
       THEN /\ storage' = r.st
            /\ optimize' = [optimize EXCEPT !.pc = "objective", !.i = @ + 1,
                                            !.trial_id = r.ret, !.value = None,
                                            !.calls = 0]
       ELSE Escapes(r.st, r.err)

\* for _ in range(n_trials): trial_id = self.storage.create_new_trial()
Optimize_create_new_trial ==
    /\ optimize.pc = "loop"
    /\ optimize.i < optimize.n_trials
    /\ Created(create_new_trial(storage))
    /\ UNCHANGED pruner

\* The loop has run n_trials times: optimize returns.
Optimize_return ==
    /\ optimize.pc = "loop"
    /\ optimize.i = optimize.n_trials
    /\ optimize' = [optimize EXCEPT !.pc = "returned"]
    /\ UNCHANGED <<storage, ret, pruner>>

\* The handles the objective can hold: its own and those of earlier trials.
Handles == 0..optimize.trial_id

\* A call of the objective on a Trial handle has returned or raised, inside
\* the try: the exception is caught by except Exception.
ObjectiveCalled(op, id, r, val) ==
    /\ ret' = Outcome(op, id, r.err, val)
    /\ IF r.err = "ok"
       THEN /\ storage' = r.st
            /\ optimize' = [optimize EXCEPT !.calls = @ + 1]
       ELSE ExceptException(r.st)

\* The objective calls trial.report(value, step) on a handle.
Objective_report ==
    /\ optimize.pc = "objective"
    /\ optimize.calls < MaxCalls
    /\ \E id \in Handles, v \in Values, step \in Steps :
          ObjectiveCalled("report", id, Trial_report(storage, id, v, step),
                          [value |-> v, step |-> step])
    /\ UNCHANGED pruner

ShouldPruneCalled(id, r) ==
    ObjectiveCalled("should_prune", id, r, r.err = "ok" /\ r.ret)

\* The objective calls trial.should_prune() on a handle.
Objective_should_prune ==
    /\ optimize.pc = "objective"
    /\ optimize.calls < MaxCalls
    /\ \E id \in Handles :
          ShouldPruneCalled(id, Trial_should_prune(pruner, storage, id))
    /\ UNCHANGED pruner

\* The first write of the try has returned or raised.
ValueSet(v, r) ==
    /\ ret' = Outcome("set_trial_value", optimize.trial_id, r.err, FALSE)
    /\ IF r.err = "ok"
       THEN /\ storage' = r.st
            /\ optimize' = [optimize EXCEPT !.pc = "completed", !.value = v]
       ELSE ExceptException(r.st)

\* value = objective(trial); self.storage.set_trial_value(trial_id, value)
Objective_return ==
    /\ optimize.pc = "objective"
    /\ \E v \in Values :
          ValueSet(v, set_trial_value(storage, optimize.trial_id, v))
    /\ UNCHANGED pruner

\* The second write of the try has returned or raised.
StateSet(r) ==
    /\ ret' = Outcome("set_trial_state", optimize.trial_id, r.err, FALSE)
    /\ IF r.err = "ok" THEN NextIteration(r.st) ELSE ExceptException(r.st)

\* self.storage.set_trial_state(trial_id, "completed")
Optimize_set_state_completed ==
    /\ optimize.pc = "completed"
    /\ StateSet(set_trial_state(storage, optimize.trial_id, "completed"))
    /\ UNCHANGED pruner

\* except TrialPruned, up to its first write: the value written is returned.
ExceptTrialPruned(st, id) ==
    Then(get_trial(st, id),
         LAMBDA frozen_trial :
            IF last_step(frozen_trial.ret) = None
            THEN Raise(frozen_trial.st, "AssertionError")
            ELSE Then(set_trial_value(
                          frozen_trial.st, id,
                          frozen_trial.ret.intermediate_values[last_step(frozen_trial.ret)]),
                      LAMBDA r :
                         Ok(r.st,
                            frozen_trial.ret.intermediate_values[last_step(frozen_trial.ret)])))

\* The handler of TrialPruned, were it inside the try: an exception it
\* raises is caught by except Exception.
PrunedValueSet_caught(r) ==
    /\ ret' = Outcome("TrialPruned", optimize.trial_id, r.err, FALSE)
    /\ IF r.err = "ok"
       THEN /\ storage' = r.st
            /\ optimize' = [optimize EXCEPT !.pc = "pruned", !.value = r.ret]
       ELSE ExceptException(r.st)

\* except TrialPruned has made its first write, or raised.
PrunedValueSet(r) ==
    /\ ret' = Outcome("TrialPruned", optimize.trial_id, r.err, FALSE)
    /\ IF r.err = "ok"
       THEN /\ storage' = r.st
            /\ optimize' = [optimize EXCEPT !.pc = "pruned", !.value = r.ret]
       ELSE Escapes(r.st, r.err)

\* The objective raises TrialPruned: an exception raised in the handler
\* leaves optimize.
Objective_raise_TrialPruned ==
    /\ optimize.pc = "objective"
    /\ PrunedValueSet(ExceptTrialPruned(storage, optimize.trial_id))
    /\ UNCHANGED pruner

\* The second write of except TrialPruned has returned or raised.
PrunedStateSet(r) ==
    /\ ret' = Outcome("set_trial_state", optimize.trial_id, r.err, FALSE)
    /\ Handled(r)

\* self.storage.set_trial_state(trial_id, "pruned")
Optimize_set_state_pruned ==
    /\ optimize.pc = "pruned"
    /\ PrunedStateSet(set_trial_state(storage, optimize.trial_id, "pruned"))
    /\ UNCHANGED pruner

\* The objective raises an exception of its own, not TrialPruned.
Objective_raise_Exception ==
    /\ optimize.pc = "objective"
    /\ ret' = Outcome("objective", optimize.trial_id, "Exception", FALSE)
    /\ ExceptException(storage)
    /\ UNCHANGED pruner

\* study.best_trial, once optimize has returned or raised: the last call
\* made on the study.
Study_best_trial ==
    /\ optimize.pc \in {"returned", "raised"}
    /\ Recorded("best_trial", None, get_best_trial(storage))
    /\ optimize' = [optimize EXCEPT !.pc = "end"]
    /\ UNCHANGED pruner

NextStudy ==
    \/ Optimize_create_new_trial
    \/ Optimize_return
    \/ Objective_report
    \/ Objective_should_prune
    \/ Objective_return
    \/ Optimize_set_state_completed
    \/ Objective_raise_TrialPruned
    \/ Optimize_set_state_pruned
    \/ Objective_raise_Exception
    \/ Study_best_trial

SpecStudy == InitStudy /\ [][NextStudy]_vars

\* ------------------------------------ Pruner.prune, on the trials of a study

\* What one run of the objective reported, as the dict it leaves.
Reports == UNION {[S -> Values] : S \in SUBSET Steps}

\* trial.report(reports[step], step) for the steps of reports from step on.
RECURSIVE Reported(_, _, _, _)
Reported(st, id, reports, step) ==
    IF step > MaxStep THEN st
    ELSE IF step \in DOMAIN reports
         THEN Reported(Trial_report(st, id, reports[step], step).st, id, reports, step + 1)
    ELSE Reported(st, id, reports, step + 1)

\* The writes of optimize that end trial id as completed with value 1, or as
\* failed; none for a trial that is running.
Ended(st, id, end) ==
    IF end = "completed"
    THEN set_trial_state(set_trial_value(st, id, 1).st, id, "completed").st
    ELSE IF end = "failed" THEN set_trial_state(st, id, "failed").st
    ELSE st

\* One iteration of the loop of optimize, on the trial just created, for an
\* objective that makes the reports of run and ends as run.end.
Iterated(created, run) ==
    Ended(Reported(created.st, created.ret, run.reports, 0), created.ret, run.end)

\* The iterations of optimize for the runs, in order.
RECURSIVE Ran(_, _)
Ran(st, runs) ==
    IF runs = <<>> THEN st
    ELSE Ran(Iterated(create_new_trial(st), Head(runs)), Tail(runs))

EarlierRuns == [reports : Reports, end : {"completed", "failed"}]

\* optimize runs the objective for a trial that has made its reports, after
\* the trials of the earlier iterations have ended.
InitPruner ==
    /\ ret = NoCall
    /\ pruner \in Pruners
    /\ \E new \in {NewStorage, NewJournalStorage}, n \in 0..MaxEarlier :
          \E earlier \in [1..n -> EarlierRuns], own \in Reports :
             /\ storage = Ran(new, earlier \o <<[reports |-> own, end |-> "running"]>>)
             /\ optimize = Frame("objective", n + 1, n + 1, n, None, 0, "none")

NextPruner == Objective_should_prune

SpecPruner == InitPruner /\ [][NextPruner]_vars

\* ------------------------------------------------------------------- claims

\* The trial is completed, pruned or failed.
Terminal(trial) == trial.state \in {"completed", "pruned", "failed"}

\* The id is that of a trial of the storage, and the trial is terminal.
FinishedAt(st, id) ==
    /\ id >= 0
    /\ id < Len(st.trials)
    /\ Terminal(st.trials[id + 1])

Setters ==
    {"set_trial_value", "set_trial_state", "set_trial_param",
     "set_trial_intermediate_value", "set_trial_state_value"}

\* C1: in the in-memory Storage, every setter called on the id of a finished
\* trial raises the AssertionError and leaves the trials as they were.
C1_FinishedTrialRejectsSetters ==
    [][(/\ storage.kind = "Storage"
        /\ ret'.op \in Setters
        /\ FinishedAt(storage, ret'.trial_id))
       => (/\ ret'.err = "AssertionError"
           /\ storage'.trials = storage.trials)]_vars

\* A setter was called on a finished trial of a Storage and was refused.
C1_Witness ==
    /\ storage.kind = "Storage"
    /\ ret.op = "set_trial_param"
    /\ ret.err = "AssertionError"
    /\ FinishedAt(storage, ret.trial_id)

\* C2: in both storages a trial that is finished in the trial list, the list
\* every read returns a copy of, keeps its place and every field in every
\* later step: it never runs again and never changes its terminal state.
C2_TerminalIsAbsorbing ==
    [][\A i \in 1..Len(storage.trials) :
          Terminal(storage.trials[i])
          => (/\ Len(storage'.trials) >= i
              /\ storage'.trials[i] = storage.trials[i])]_vars

\* A read of a JournalStorage returned a trial that is completed with a value.
C2_Witness ==
    /\ storage.kind = "JournalStorage"
    /\ ret.op = "get_trial"
    /\ ret.err = "ok"
    /\ storage.trials[ret.trial_id + 1].state = "completed"
    /\ storage.trials[ret.trial_id + 1].value # None

\* The completed trials of a trial list.
Completed(trials) == SelectSeq(trials, IsCompleted)

\* The objective of trial id has reported on its own handle: Storage keeps
\* the report in the trial, JournalStorage in its logs.
HasReported(st, id) ==
    IF st.kind = "Storage"
    THEN DOMAIN st.trials[id + 1].intermediate_values # {}
    ELSE \E k \in 1..Len(st.logs) :
            /\ st.logs[k].op = "SET_TRIAL_INTERMEDIATE_VALUE"
            /\ st.logs[k].data.trial_id = id

\* get_all_trials returns n trials, all of them finished.
AllFinished(r, n) ==
    /\ r.err = "ok"
    /\ Len(r.ret) = n
    /\ \A i \in 1..Len(r.ret) : Terminal(r.ret[i])

\* C3: with either storage, unless the objective raised TrialPruned without
\* having reported, no exception leaves optimize, and when optimize returns
\* a read of the storage gives n_trials trials, all of them finished.
C3_NoErrorEscapesOptimize ==
    /\ optimize.pc = "raised"
       => (ret.op = "TrialPruned" /\ ~HasReported(storage, optimize.trial_id))
    /\ optimize.pc = "returned"
       => AllFinished(get_all_trials(storage), optimize.n_trials)

\* a <= b for the values of two completed trials, a number being at most NaN
\* and NaN being at most nothing but NaN.
AtMost(a, b) == a = b \/ (a # NaN /\ (b = NaN \/ a <= b))

\* The trial returned is the first completed trial of the least value.
IsBest(best, trials) ==
    /\ best.state = "completed"
    /\ \E k \in 1..Len(Completed(trials)) :
          /\ Completed(trials)[k] = best
          /\ \A j \in 1..Len(Completed(trials)) :
                /\ AtMost(best.value, Completed(trials)[j].value)
                /\ j < k => Completed(trials)[j].value # best.value

\* C4: when Study.best_trial returns and some trial is completed, it returns
\* a completed trial whose value is at most the value of every completed
\* trial, the first such trial of the list.
C4_BestTrialIsMinimal ==
    (/\ ret.op = "best_trial"
     /\ ret.err = "ok"
     /\ Len(Completed(storage.trials)) > 0)
    => IsBest(get_best_trial(storage).ret, storage.trials)

\* C5: get_best_trial called on a storage without a completed trial returns
\* normally.
C5_NoCompletedTrialReturnsNone ==
    (/\ ret.op = "get_best_trial"
     /\ Len(Completed(storage.trials)) = 0)
    => ret.err = "ok"

\* In a trial list, completed and pruned trials have a value, failed trials
\* have none.
ValueMatchesState(trials) ==
    \A i \in 1..Len(trials) :
       /\ trials[i].state \in {"completed", "pruned"} => trials[i].value # None
       /\ trials[i].state = "failed" => trials[i].value = None

\* C6: with the in-memory Storage, after every step of optimize completed
\* and pruned trials have a value and failed trials have none; a value once
\* written is never written again; and a trial becomes completed or pruned
\* only when its value is already written.
C6_ValueWrittenOnceBeforeState ==
    [][storage.kind = "Storage"
       => (/\ ValueMatchesState(storage'.trials)
           /\ \A i \in 1..Len(storage.trials) :
                 /\ storage.trials[i].value # None
                    => storage'.trials[i].value = storage.trials[i].value
                 /\ (/\ storage.trials[i].state = "running"
                     /\ storage'.trials[i].state \in {"completed", "pruned"})
                    => storage.trials[i].value # None)]_vars

\* Between the two writes that complete a trial: it is running with a value.
C6_Witness ==
    /\ storage.kind = "Storage"
    /\ optimize.pc = "completed"
    /\ storage.trials[optimize.trial_id + 1].state = "running"
    /\ storage.trials[optimize.trial_id + 1].value # None

\* The value reported at the greatest step of a dict of reports.
AtLastStep(intermediate_values) ==
    intermediate_values[
        CHOOSE m \in DOMAIN intermediate_values :
           \A x \in DOMAIN intermediate_values : x <= m]

\* C7: a trial that is pruned has reported, and its value is the value it
\* holds for the greatest step reported; and after a report a read of the
\* trial gives the reports it gave before with the value reported in the
\* place of the step reported.
C7_PrunedValueIsAtLastStep ==
    [][/\ \A i \in 1..Len(storage'.trials) :
             storage'.trials[i].state = "pruned"
             => (/\ DOMAIN storage'.trials[i].intermediate_values # {}
                 /\ storage'.trials[i].value =
                        AtLastStep(storage'.trials[i].intermediate_values))
       /\ (/\ ret'.op = "report"
           /\ ret'.err = "ok"
           /\ get_trial(storage', ret'.trial_id).err = "ok")
          => (/\ get_trial(storage, ret'.trial_id).err = "ok"
              /\ get_trial(storage', ret'.trial_id).ret.intermediate_values =
                    DictSet(get_trial(storage, ret'.trial_id).ret.intermediate_values,
                            ret'.val.step, ret'.val.value))]_vars

\* A trial is pruned with the value of step 1, which is not that of step 0.
C7_Witness ==
    \E i \in 1..Len(storage.trials) :
       /\ storage.trials[i].state = "pruned"
       /\ DOMAIN storage.trials[i].intermediate_values = {0, 1}
       /\ storage.trials[i].intermediate_values[0] # storage.trials[i].intermediate_values[1]
       /\ storage.trials[i].value = storage.trials[i].intermediate_values[1]

\* C8: when the objective raises TrialPruned and has not reported, the
\* AssertionError leaves optimize, the trial stays running without a value,
\* nothing is logged for it; and once an exception has left optimize no
\* trial is created.
C8_PrunedWithoutReportEscapes ==
    [][/\ (/\ optimize.pc = "objective"
           /\ ret'.op = "TrialPruned"
           /\ ~HasReported(storage, optimize.trial_id))
          => (/\ optimize'.pc = "raised"
              /\ optimize'.exc = "AssertionError"
              /\ storage'.logs = storage.logs
              /\ storage'.trials[optimize.trial_id + 1].state = "running"
              /\ storage'.trials[optimize.trial_id + 1].value = None)
       /\ optimize.pc = "raised"
          => (/\ optimize'.pc \in {"raised", "end"}
              /\ Len(storage'.trials) = Len(storage.trials)
              /\ Len(storage'.logs) = Len(storage.logs))]_vars

\* The AssertionError left optimize before its last iteration, the trial
\* running and without a report.
C8_Witness ==
    /\ optimize.pc = "raised"
    /\ ret.op = "TrialPruned"
    /\ ret.err = "AssertionError"
    /\ optimize.i < optimize.n_trials
    /\ ~HasReported(storage, optimize.trial_id)
    /\ storage.trials[optimize.trial_id + 1].state = "running"

\* The trial should_prune was last called on, as the storage holds it.
Judged == storage.trials[ret.trial_id + 1]

\* The trials of the storage but the judged one.
Others ==
    LET IsOther(t) == t.trial_id # ret.trial_id
    IN  SelectSeq(storage.trials, IsOther)

\* Both gates of prune pass for the judged trial.
GatesPass ==
    /\ Len(Completed(storage.trials)) >= pruner.n_startup_trials
    /\ DOMAIN Judged.intermediate_values # {}
    /\ \E step \in DOMAIN Judged.intermediate_values : step >= pruner.n_warmup_steps

\* The greatest step the judged trial has reported.
JudgedStep ==
    CHOOSE m \in DOMAIN Judged.intermediate_values :
       \A x \in DOMAIN Judged.intermediate_values : x <= m

\* C9: when both gates pass, should_prune called by the objective on its
\* own trial answers true exactly when the trial's value at its last step is
\* greater than the median of the values the other trials hold for that
\* step.
C9_MedianOfTheOtherTrials ==
    (/\ ret.op = "should_prune"
     /\ ret.err = "ok"
     /\ ret.trial_id = optimize.trial_id
     /\ GatesPass)
    => (ret.val <=> GtMedian(Judged.intermediate_values[JudgedStep],
                             nanmedian2(ValuesAt(Others, JudgedStep))))

\* C10: should_prune answers false when fewer trials are completed than
\* n_startup_trials, when the trial has reported nothing, and when its last
\* step is less than n_warmup_steps.
C10_GatesAnswerFalse ==
    (/\ ret.op = "should_prune"
     /\ ret.err = "ok"
     /\ ~GatesPass)
    => ret.val = FALSE

\* The startup gate answered false for a trial whose value is above the
\* median of its step.
C10_Witness ==
    /\ ret.op = "should_prune"
    /\ ret.err = "ok"
    /\ ret.val = FALSE
    /\ Len(Completed(storage.trials)) < pruner.n_startup_trials
    /\ DOMAIN Judged.intermediate_values # {}
    /\ GtMedian(Judged.intermediate_values[JudgedStep],
                nanmedian2(ValuesAt(storage.trials, JudgedStep)))

\* C11: when both gates pass and no trial but the judged one holds a value
\* for the judged trial's last step, should_prune answers false, whatever
\* the judged trial reported.
C11_NoOtherValueAnswersFalse ==
    (/\ ret.op = "should_prune"
     /\ ret.err = "ok"
     /\ GatesPass
     /\ Len(ValuesAt(Others, JudgedStep)) = 0)
    => ret.val = FALSE

\* should_prune answered for a trial that reported a number at a step that
\* the two other trials of the storage did not report.
C11_Witness ==
    /\ ret.op = "should_prune"
    /\ ret.err = "ok"
    /\ GatesPass
    /\ Len(Others) = 2
    /\ Len(ValuesAt(Others, JudgedStep)) = 0
    /\ Judged.intermediate_values[JudgedStep] # NaN
    /\ ret.val = FALSE

Reads == {"get_trial", "get_all_trials", "get_best_trial"}

\* The log applied in order, entry by entry, to a JournalStorage that holds
\* no trial.
Replayed(logs) == SyncLoop([NewJournalStorage EXCEPT !.logs = logs], 1)

\* C12: when a read of a JournalStorage returns, the cursor is at the end of
\* the log and the trial list the read returns from is the whole log applied
\* in order to an empty trial list.
C12_ReadsApplyTheWholeLog ==
    (/\ storage.kind = "JournalStorage"
     /\ ret.op \in Reads
     /\ ret.err = "ok")
    => (/\ storage.next_op_id = Len(storage.logs)
        /\ Replayed(storage.logs).err = "ok"
        /\ storage.trials = Replayed(storage.logs).st.trials)

\* A read returned with three entries applied: a trial completed with a value.
C12_Witness ==
    /\ storage.kind = "JournalStorage"
    /\ ret.op = "get_all_trials"
    /\ ret.err = "ok"
    /\ Len(storage.logs) = 3
    /\ storage.trials[1].state = "completed"
    /\ storage.trials[1].value # None

\* Every setter logged names a trial that an earlier entry of the log creates.
TargetsExist(logs) ==
    \A k \in 1..Len(logs) :
       logs[k].op # "CREATE_NEW_TRIAL"
       => (/\ logs[k].data.trial_id >= 0
           /\ logs[k].data.trial_id <
                 Cardinality({j \in 1..(k - 1) : logs[j].op = "CREATE_NEW_TRIAL"}))

\* C13: in every state of a JournalStorage whose setters were called on
\* trials that exist, myfile.json holds one record for each entry written, in
\* the order of the log: it is the serialized log up to some entry.
C13_EachEntryWrittenOnce ==
    (/\ storage.kind = "JournalStorage"
     /\ TargetsExist(storage.logs))
    => (/\ Len(storage.file) <= Len(storage.logs)
        /\ \A k \in 1..Len(storage.file) :
              storage.file[k] = json_serialize(storage.logs[k]))

\* C15: a setter of a JournalStorage called on the id of a trial that is
\* finished raises the AssertionError in that call.
C15_JournalSetterFailsInTheCall ==
    (/\ storage.kind = "JournalStorage"
     /\ ret.op \in Setters
     /\ FinishedAt(storage, ret.trial_id))
    => ret.err = "AssertionError"

\* C16: in both storages create_new_trial returns the number of trials the
\* storage held and appends one trial, running and empty, of that id; only
\* create_new_trial changes the number of trials, which never decreases; and
\* the trial at position i, counted from 0, has trial_id i.
C16_TrialIdsAreDense ==
    [][/\ (ret'.op = "create_new_trial" /\ ret'.err = "ok")
          => (/\ ret'.val = Len(storage.trials)
              /\ Len(storage'.trials) = Len(storage.trials) + 1
              /\ storage'.trials[Len(storage'.trials)] =
                    [trial_id |-> Len(storage.trials), state |-> "running",
                     value |-> None, intermediate_values |-> EmptyDict,
                     internal_params |-> EmptyDict, distributions |-> EmptyDict])
       /\ Len(storage'.trials) >= Len(storage.trials)
       /\ Len(storage'.trials) # Len(storage.trials)
          => (ret'.op = "create_new_trial" /\ ret'.err = "ok")
       /\ \A i \in 1..Len(storage'.trials) : storage'.trials[i].trial_id = i - 1
       /\ \A i \in 1..Len(storage.trials) :
             storage'.trials[i].trial_id = storage.trials[i].trial_id]_vars

\* The second create_new_trial of a JournalStorage returned 1, after a
\* setter was applied to trial 0.
C16_Witness ==
    /\ storage.kind = "JournalStorage"
    /\ ret.op = "create_new_trial"
    /\ ret.err = "ok"
    /\ ret.val = 1
    /\ Len(storage.trials) = 2
    /\ storage.trials[1].state # "running"

\* ------------------------------- the conversions of a distribution, applied

ChoiceValues ==
    {PyNone, PyBool(TRUE), PyBool(FALSE), PyInt(0), PyInt(1), PyStr(0)}
ChoiceLists == UNION {[1..n -> ChoiceValues] : n \in 1..MaxChoices}

Distributions ==
    {FloatDistribution(0, MaxInt, FALSE)}
    \cup {IntDistribution(low, high) : low \in 0..MaxInt, high \in 0..MaxInt}
    \cup {CategoricalDistribution(choices) : choices \in ChoiceLists}

\* The external values of a distribution's domain (for Float, those of
\* integral value).
ExternalDomain(distribution) ==
    CASE distribution.kind = "Float" ->
            {PyFloat(n) : n \in distribution.low..distribution.high}
      [] distribution.kind = "Int" ->
            {PyInt(n) : n \in distribution.low..distribution.high}
      [] distribution.kind = "Categorical" ->
            {distribution.choices[k] : k \in 1..Len(distribution.choices)}

\* The internal values of a distribution's domain: floats, and for
\* Categorical the valid indices.
InternalDomain(distribution) ==
    CASE distribution.kind = "Float" ->
            {PyFloat(n) : n \in distribution.low..distribution.high}
      [] distribution.kind = "Int" ->
            {PyFloat(n) : n \in distribution.low..distribution.high}
      [] distribution.kind = "Categorical" ->
            {PyInt(k - 1) : k \in 1..Len(distribution.choices)}

\* A distribution and a value of its domain, arg, given as its external or
\* its internal representation; result, what the conversions called so far
\* have made of it.
Conversion(distribution, origin, arg) ==
    Outcome("none", None, "ok",
            [distribution |-> distribution, origin |-> origin, arg |-> arg,
             result |-> arg, calls |-> 0])

InitRepr ==
    /\ storage = NewStorage
    /\ pruner = Pruner(5, 0)
    /\ optimize = Idle
    /\ \E distribution \in Distributions :
          \/ \E v \in ExternalDomain(distribution) :
                ret = Conversion(distribution, "external", v)
          \/ \E x \in InternalDomain(distribution) :
                ret = Conversion(distribution, "internal", x)

\* A conversion was called on the result of the last one.
Converted(op, r) ==
    /\ ret' = Outcome(op, None, r.err,
                      [ret.val EXCEPT !.result = r.ret, !.calls = @ + 1])
    /\ UNCHANGED <<storage, pruner, optimize>>

Call_to_internal_repr ==
    /\ ret.err = "ok"
    /\ \/ ret.val.origin = "external" /\ ret.val.calls = 0
       \/ ret.val.origin = "internal" /\ ret.val.calls = 1
    /\ Converted("to_internal_repr",
                 to_internal_repr(ret.val.distribution, ret.val.result))

Call_to_external_repr ==
    /\ ret.err = "ok"
    /\ \/ ret.val.origin = "internal" /\ ret.val.calls = 0
       \/ ret.val.origin = "external" /\ ret.val.calls = 1
    /\ Converted("to_external_repr",
                 to_external_repr(ret.val.distribution, ret.val.result))

NextRepr ==
    \/ Call_to_internal_repr
    \/ Call_to_external_repr

SpecRepr == InitRepr /\ [][NextRepr]_vars

\* C19: to_external_repr(to_internal_repr(v)) is v, the same value of the
\* same type, for every value v of the domain of every distribution.
C19_ExternalRoundTrip ==
    (/\ ret.val.origin = "external"
     /\ ret.val.calls = 2)
    => (/\ ret.err = "ok"
        /\ ret.val.result = ret.val.arg)

\* C20: to_internal_repr(to_external_repr(x)) is x for every internal value
\* of the domain of every distribution: every valid index of a Categorical,
\* every float of integral value of an Int.
C20_InternalRoundTrip ==
    (/\ ret.val.origin = "internal"
     /\ ret.val.calls = 2)
    => (/\ ret.err = "ok"
        /\ ret.val.result = ret.val.arg)

\* ---------------------------------------------- Trial._suggest, and params

set_trial_param(st, id, name, distribution, value) ==
    IF st.kind = "Storage"
    THEN Storage_set_trial_param(st, id, name, distribution, value)
    ELSE JournalStorage_set_trial_param(st, id, name, distribution, value)

\* Sampler.sample_independent: the values the rng can give (for Float,
\* those of integral value).
sample_independent(distribution) == ExternalDomain(distribution)

\* The second half of _suggest: param_value_in_internal_repr is computed or
\* the conversion raised; set_trial_param; return param_value.
Persisted(st, id, name, distribution, param_value, internal) ==
    IF internal.err # "ok" THEN Raise(st, internal.err)
    ELSE Then(set_trial_param(st, id, name, distribution, internal.ret),
              LAMBDA r : Ok(r.st, param_value))

\* Trial._suggest(name, distribution), the sampler giving param_value.
Trial_suggest(st, id, name, distribution, param_value) ==
    Then(get_trial(st, id),
         LAMBDA trial :
            Persisted(trial.st, id, name, distribution, param_value,
                      to_internal_repr(distribution, param_value)))

\* The entry of FrozenTrial.params for a name.
External(trial, param_name) ==
    to_external_repr(trial.distributions[param_name],
                     trial.internal_params[param_name])

\* FrozenTrial.params: the dict of the external values, or the exception of
\* an entry whose conversion raises.
params(trial) ==
    IF \E name \in DOMAIN trial.internal_params : External(trial, name).err # "ok"
    THEN Raises(External(trial,
                         CHOOSE name \in DOMAIN trial.internal_params :
                            External(trial, name).err # "ok").err)
    ELSE Returns([name \in DOMAIN trial.internal_params |->
                    External(trial, name).ret])

\* storage.get_trial(trial_id).params
get_trial_params(st, id) ==
    Then(get_trial(st, id),
         LAMBDA trial :
            IF params(trial.ret).err = "ok" THEN Ok(trial.st, params(trial.ret).ret)
            ELSE Raise(trial.st, params(trial.ret).err))

SuggestNames == {"x", "y"}
\* suggest_float(name, 0, 1), suggest_int(name, 0, 1) and two calls of
\* suggest_categorical.
SuggestDistributions ==
    {FloatDistribution(0, 1, FALSE), IntDistribution(0, 1),
     CategoricalDistribution(<<PyInt(1), PyBool(TRUE)>>),
     CategoricalDistribution(<<PyStr(0), PyNone>>)}

\* optimize runs the objective of the first trial of a new study.
InitSuggest ==
    /\ ret = NoCall
    /\ pruner = Pruner(5, 0)
    /\ optimize = Frame("objective", 1, 1, 0, None, 0, "none")
    /\ \E new \in {NewStorage, NewJournalStorage} :
          storage = create_new_trial(new).st

\* A suggest call has returned or raised.
Suggested(name, distribution, r) ==
    /\ storage' = r.st
    /\ ret' = Outcome("suggest", optimize.trial_id, r.err,
                      [name |-> name, distribution |-> distribution,
                       value |-> r.ret])
    /\ optimize' = [optimize EXCEPT !.calls = @ + 1]
    /\ UNCHANGED pruner

\* The objective calls trial.suggest_float, suggest_int or
\* suggest_categorical.
Objective_suggest ==
    /\ optimize.calls < MaxSuggests
    /\ \E name \in SuggestNames, distribution \in SuggestDistributions :
          \E param_value \in sample_independent(distribution) :
             Suggested(name, distribution,
                       Trial_suggest(storage, optimize.trial_id, name,
                                     distribution, param_value))

\* get_trial(trial_id).params has returned or raised.
ParamsRead(r) ==
    /\ storage' = r.st
    /\ ret' = Outcome("params", optimize.trial_id, r.err,
                      IF r.err = "ok" THEN r.ret ELSE FALSE)
    /\ UNCHANGED <<pruner, optimize>>

\* The params of the trial are read.
Read_params ==
    /\ optimize.pc = "objective"
    /\ ParamsRead(get_trial_params(storage, optimize.trial_id))

NextSuggest ==
    \/ Objective_suggest
    \/ Read_params

SpecSuggest == InitSuggest /\ [][NextSuggest]_vars

\* C18: with either storage, after a suggest call returned v for a name,
\* get_trial(id).params gives for that name a value == v, and the
\* distribution stored for the name is the one the call was made with.
C18_ParamsGiveTheSuggestedValue ==
    (/\ ret.op = "suggest"
     /\ ret.err = "ok")
    => (/\ get_trial_params(storage, ret.trial_id).err = "ok"
        /\ PyEq(get_trial_params(storage, ret.trial_id).ret[ret.val.name],
                ret.val.value)
        /\ get_trial(storage, ret.trial_id).ret.distributions[ret.val.name] =
              ret.val.distribution)

\* --------------------- a Storage and a JournalStorage given the same calls

\* Both storages are new.
InitPair ==
    /\ storage = [kind |-> "pair", memory |-> NewStorage,
                  journal |-> NewJournalStorage]
    /\ ret = NoCall
    /\ pruner = Pruner(5, 0)
    /\ optimize = Idle

\* The same call was made on both, within the model's bounds: ret.val holds
\* what each returned or raised.
PairCalled(op, id, m, j) ==
    /\ Within(m.st)
    /\ Within(j.st)
    /\ storage' = [kind |-> "pair", memory |-> m.st, journal |-> j.st]
    /\ ret' = Outcome(op, id, "ok",
                      [memory |-> [err |-> m.err, ret |-> m.ret],
                       journal |-> [err |-> j.err, ret |-> j.ret]])
    /\ UNCHANGED <<pruner, optimize>>

\* The trial exists and is running: the setters are called on such trials.
Running(trial_id) ==
    /\ trial_id < Len(storage.memory.trials)
    /\ storage.memory.trials[trial_id + 1].state = "running"

Pair_create_new_trial ==
    /\ storage.kind = "pair"
    /\ PairCalled("create_new_trial", None,
                  Storage_create_new_trial(storage.memory),
                  JournalStorage_create_new_trial(storage.journal))

Pair_set_trial_value ==
    \E trial_id \in TrialIds, value \in ApiValues :
       /\ Running(trial_id)
       /\ PairCalled("set_trial_value", trial_id,
                     Storage_set_trial_value(storage.memory, trial_id, value),
                     JournalStorage_set_trial_value(storage.journal, trial_id, value))

Pair_set_trial_state ==
    \E trial_id \in TrialIds, state \in TrialStateType :
       /\ Running(trial_id)
       /\ PairCalled("set_trial_state", trial_id,
                     Storage_set_trial_state(storage.memory, trial_id, state),
                     JournalStorage_set_trial_state(storage.journal, trial_id, state))

Pair_set_trial_param ==
    \E trial_id \in TrialIds, name \in ParamNames, p \in ParamArgs :
       /\ Running(trial_id)
       /\ PairCalled("set_trial_param", trial_id,
                     Storage_set_trial_param(storage.memory, trial_id, name,
                                             p.distribution, PyFloat(p.value)),
                     JournalStorage_set_trial_param(storage.journal, trial_id, name,
                                                    p.distribution, PyFloat(p.value)))

Pair_set_trial_intermediate_value ==
    \E trial_id \in TrialIds, step \in ApiSteps, value \in ApiValues :
       /\ Running(trial_id)
       /\ PairCalled("set_trial_intermediate_value", trial_id,
                     Storage_set_trial_intermediate_value(storage.memory, trial_id,
                                                          step, value),
                     JournalStorage_set_trial_intermediate_value(storage.journal,
                                                                 trial_id, step, value))

Pair_get_trial ==
    /\ storage.kind = "pair"
    /\ \E trial_id \in TrialIds :
          PairCalled("get_trial", trial_id,
                     Storage_get_trial(storage.memory, trial_id),
                     JournalStorage_get_trial(storage.journal, trial_id))

Pair_get_all_trials ==
    /\ storage.kind = "pair"
    /\ PairCalled("get_all_trials", None,
                  Storage_get_all_trials(storage.memory),
                  JournalStorage_get_all_trials(storage.journal))

Pair_get_best_trial ==
    /\ storage.kind = "pair"
    /\ PairCalled("get_best_trial", None,
                  Storage_get_best_trial(storage.memory),
                  JournalStorage_get_best_trial(storage.journal))

\* get_trial(trial_id).params, of both.
Pair_params ==
    /\ storage.kind = "pair"
    /\ \E trial_id \in TrialIds :
          PairCalled("params", trial_id,
                     get_trial_params(storage.memory, trial_id),
                     get_trial_params(storage.journal, trial_id))

NextPair ==
    \/ Pair_create_new_trial
    \/ Pair_set_trial_value
    \/ Pair_set_trial_state
    \/ Pair_set_trial_param
    \/ Pair_set_trial_intermediate_value
    \/ Pair_get_trial
    \/ Pair_get_all_trials
    \/ Pair_get_best_trial
    \/ Pair_params

SpecPair == InitPair /\ [][NextPair]_vars

\* C14: given the same calls, the setters on running trials only, a Storage
\* and a JournalStorage return the same from create_new_trial, get_trial,
\* get_all_trials and get_best_trial, and the same params of a trial.
C14_StoragesAgree ==
    ret.op \in Reads \cup {"create_new_trial", "params"}
    => /\ ret.val.memory.err = ret.val.journal.err
       /\ ret.val.memory.err = "ok" => ret.val.memory.ret = ret.val.journal.ret

\* ------------------------------ the snapshots a read returns, and its caller

\* The attributes of a FrozenTrial that hold a dict.
Mappings == {"intermediate_values", "internal_params", "distributions"}

\* copy.copy of each trial: new FrozenTrial objects that hold the dicts of
\* the originals.
deepcopy_shallow(trials) == [trials |-> trials, shares |-> Mappings]

\* copy.deepcopy(x), x the trials a read returns: objects equal to them,
\* every one of them new. shares: the attributes of the copies that are the
\* very objects the originals hold.
deepcopy(trials) == [trials |-> trials, shares |-> {}]

NoSnapshot == [trials |-> <<>>, shares |-> {}]

\* What the holder of a snapshot finds in it once the storage is st: an
\* attribute shared with the storage's trial is that trial's.
Seen(snapshot, st) ==
    [snapshot EXCEPT !.trials =
        [k \in DOMAIN snapshot.trials |->
            [f \in DOMAIN snapshot.trials[k] |->
                IF f \in snapshot.shares
                THEN st.trials[snapshot.trials[k].trial_id + 1][f]
                ELSE snapshot.trials[k][f]]]]

\* snapshot.state = val, snapshot.value = val, snapshot.<mapping>[key] = val.
Assignments ==
    [f : {"state"}, key : {None}, val : TrialStateType]
    \cup [f : {"value"}, key : {None}, val : ApiValues]
    \cup [f : {"intermediate_values"}, key : ApiSteps, val : ApiValues]
    \cup [f : {"internal_params"}, key : ParamNames, val : {PyFloat(0)}]
    \cup [f : {"distributions"}, key : ParamNames, val : {FloatDistribution(0, 1, FALSE)}]

Assigned(trial, a) ==
    IF a.f \in Mappings THEN [trial EXCEPT ![a.f] = DictSet(@, a.key, a.val)]
    ELSE [trial EXCEPT ![a.f] = a.val]

\* The caller makes one more call or assignment, of at most MaxCallerCalls.
Caller ==
    /\ optimize.pc = "caller"
    /\ optimize.calls < MaxCallerCalls

\* A new storage, and a caller that holds no snapshot yet.
InitSnapshot ==
    /\ storage \in {NewStorage, NewJournalStorage}
    /\ ret = NoCall
    /\ pruner = Pruner(5, 0)
    /\ optimize = [pc |-> "caller", snapshot |-> NoSnapshot, calls |-> 0]

\* The caller has made a call that returns no trial.
SnapshotCalled(op, id, r) ==
    /\ Within(r.st)
    /\ storage' = r.st
    /\ optimize' = [optimize EXCEPT !.snapshot = Seen(@, r.st), !.calls = @ + 1]
    /\ ret' = Outcome(op, id, r.err, FALSE)
    /\ UNCHANGED pruner

\* The caller has made a read: it holds the trials returned from now on, or
\* drops them and holds what it held (ret.val: it holds the new ones).
SnapshotRead(op, id, r, returned, held) ==
    /\ Within(r.st)
    /\ storage' = r.st
    /\ optimize' = [optimize EXCEPT !.snapshot =
                       IF r.err = "ok" /\ held THEN returned ELSE Seen(@, r.st),
                                    !.calls = @ + 1]
    /\ ret' = Outcome(op, id, r.err, r.err = "ok" /\ held)
    /\ UNCHANGED pruner

Caller_create_new_trial ==
    /\ Caller
    /\ SnapshotCalled("create_new_trial", None, create_new_trial(storage))

Caller_set_trial_value ==
    /\ Caller
    /\ \E trial_id \in TrialIds, value \in ApiValues :
          SnapshotCalled("set_trial_value", trial_id,
                         set_trial_value(storage, trial_id, value))

Caller_set_trial_state ==
    /\ Caller
    /\ \E trial_id \in TrialIds, state \in TrialStateType :
          SnapshotCalled("set_trial_state", trial_id,
                         set_trial_state(storage, trial_id, state))

Caller_set_trial_intermediate_value ==
    /\ Caller
    /\ \E trial_id \in TrialIds, step \in ApiSteps, value \in ApiValues :
          SnapshotCalled("set_trial_intermediate_value", trial_id,
                         set_trial_intermediate_value(storage, trial_id, step, value))

Caller_get_trial ==
    /\ Caller
    /\ \E trial_id \in TrialIds, held \in BOOLEAN :
          LET r == get_trial(storage, trial_id)
          IN  SnapshotRead("get_trial", trial_id, r, deepcopy(<<r.ret>>), held)

Caller_get_all_trials ==
    /\ Caller
    /\ \E held \in BOOLEAN :
          LET r == get_all_trials(storage)
          IN  SnapshotRead("get_all_trials", None, r, deepcopy(r.ret), held)

Caller_get_best_trial ==
    /\ Caller
    /\ \E held \in BOOLEAN :
          LET r == get_best_trial(storage)
          IN  SnapshotRead("get_best_trial", None, r, deepcopy(<<r.ret>>), held)

\* The caller assigns to an attribute, or to an entry of a mapping, of a
\* trial it holds: an object shared with the storage is changed there too.
Caller_assign ==
    /\ Caller
    /\ \E k \in DOMAIN optimize.snapshot.trials, a \in Assignments :
          LET trial == optimize.snapshot.trials[k]
          IN  /\ optimize' = [optimize EXCEPT !.snapshot.trials[k] = Assigned(trial, a),
                                               !.calls = @ + 1]
              /\ storage' = IF a.f \in optimize.snapshot.shares
                            THEN [storage EXCEPT !.trials[trial.trial_id + 1] =
                                                    Assigned(@, a)]
                            ELSE storage
              /\ ret' = Outcome("assign", trial.trial_id, "ok", FALSE)
              /\ UNCHANGED pruner

NextSnapshot ==
    \/ Caller_create_new_trial
    \/ Caller_set_trial_value
    \/ Caller_set_trial_state
    \/ Caller_set_trial_intermediate_value
    \/ Caller_get_trial
    \/ Caller_get_all_trials
    \/ Caller_get_best_trial
    \/ Caller_assign

SpecSnapshot == InitSnapshot /\ [][NextSnapshot]_vars

\* What the three reads return, or raise, of a storage.
ReadsOf(st) ==
    [all |-> [err |-> get_all_trials(st).err, ret |-> get_all_trials(st).ret],
     best |-> [err |-> get_best_trial(st).err, ret |-> get_best_trial(st).ret],
     one |-> [id \in TrialIds |->
                 [err |-> get_trial(st, id).err, ret |-> get_trial(st, id).ret]]]

\* C17: a trial returned by get_trial, get_all_trials or get_best_trial is
\* independent of the storage: an assignment to an attribute of it, or to an
\* entry of one of its mappings, changes nothing of what the reads return;
\* a later call of the storage that the caller does not take a new snapshot
\* from leaves the snapshot it holds as it was; and a read of the in-memory
\* Storage leaves the stored trials unchanged.
C17_SnapshotsAreIndependent ==
    [][/\ ret'.op = "assign" => ReadsOf(storage') = ReadsOf(storage)
       /\ (ret'.op # "assign" /\ ret'.val = FALSE)
             => optimize'.snapshot.trials = optimize.snapshot.trials
       /\ (storage.kind = "Storage" /\ ret'.op \in Reads)
             => storage'.trials = storage.trials]_vars

\* The caller holds a trial it has assigned to, which differs from the
\* storage's; the storage has been changed since the snapshot was taken, too.
C17_Witness ==
    /\ ret.op = "assign"
    /\ storage.kind = "JournalStorage"
    /\ Len(optimize.snapshot.trials) = 1
    /\ optimize.snapshot.trials[1].state = "failed"
    /\ optimize.snapshot.trials[1].value = None
    /\ storage.trials[1].state = "running"
    /\ storage.trials[1].value # None

\* ------------------------ to_external_repr of a Categorical, on any index

\* A CategoricalDistribution and a float of integral value, inside the range
\* of its indices or up to MaxChoices + 1 away from 0 outside it.
InitIndex ==
    /\ storage = NewStorage
    /\ pruner = Pruner(5, 0)
    /\ optimize = Idle
    /\ \E choices \in ChoiceLists, i \in (0 - MaxChoices - 1)..(MaxChoices + 1) :
          ret = Conversion(CategoricalDistribution(choices), "internal", PyFloat(i))

SpecIndex == InitIndex /\ [][NextRepr]_vars

\* C21: CategoricalDistribution.to_external_repr raises a lookup error for
\* every index outside 0..len(choices)-1, the negative ones too, and returns
\* a choice only for an index inside that range.
C21_OutOfRangeIndexRaises ==
    (/\ ret.op = "to_external_repr"
     /\ ret.val.calls = 1)
    => (ret.err = "ok"
          <=> (/\ ret.val.arg.v >= 0
               /\ ret.val.arg.v < Len(ret.val.distribution.choices)))

\* ------------------- Study.optimize, the objective making suggest calls

\* A distribution of a class other than the three the Sampler knows.
UnsupportedDistribution == [kind |-> "Unsupported"]

\* Sampler.sample_independent: the values the rng can give, or the
\* ValueError of the last branch.
Sampler_sample_independent(distribution) ==
    IF distribution.kind \in {"Float", "Int", "Categorical"}
    THEN {Returns(v) : v \in sample_independent(distribution)}
    ELSE {Raises("ValueError")}

\* Trial._suggest(name, distribution), the sampler giving or raising sampled.
Trial_suggest_sampled(st, id, name, distribution, sampled) ==
    IF sampled.err = "ok"
    THEN Trial_suggest(st, id, name, distribution, sampled.ret)
    ELSE Then(get_trial(st, id), LAMBDA trial : Raise(trial.st, sampled.err))

ConfigDistributions == {IntDistribution(0, 1), UnsupportedDistribution}

\* The objective calls trial._suggest(name, distribution) on its own handle,
\* inside the try of optimize.
Objective_suggest_sampled ==
    /\ optimize.pc = "objective"
    /\ optimize.calls < MaxCalls
    /\ \E name \in ParamNames, distribution \in ConfigDistributions :
          \E sampled \in Sampler_sample_independent(distribution) :
             ObjectiveCalled("suggest", optimize.trial_id,
                             Trial_suggest_sampled(storage, optimize.trial_id, name,
                                                   distribution, sampled),
                             [distribution |-> distribution, sampled |-> sampled])
    /\ UNCHANGED pruner

\* optimize, for the objectives that make suggest calls and return a value
\* or raise.
NextConfig ==
    \/ Optimize_create_new_trial
    \/ Optimize_return
    \/ Objective_suggest_sampled
    \/ Objective_return
    \/ Optimize_set_state_completed
    \/ Objective_raise_Exception
    \/ Study_best_trial

SpecConfig == InitStudy /\ [][NextConfig]_vars

\* C22: when the Sampler is given a distribution of a kind it does not know
\* while the objective runs, the error leaves Study.optimize: the trial loop
\* does not catch it, the trial is not made failed, and no further trial is
\* started.
C22_UnsupportedKindLeavesOptimize ==
    (/\ ret.op = "suggest"
     /\ ret.val.sampled.err = "ValueError")
    => (/\ optimize.pc = "raised"
        /\ optimize.exc = "ValueError"
        /\ get_trial(storage, ret.trial_id).ret.state = "running")

\* ------------------------------ Study.optimize, run on a given objective

\* The objectives of the end-to-end runs: one reports value at step and
\* raises TrialPruned, the other has no side effect and returns value.
Objectives ==
    [kind : {"pruned"}, value : Values, step : Steps]
    \cup [kind : {"constant"}, value : Values, step : {None}]

\* create_study(storage, sampler, pruner); study.optimize(objective, n).
InitRun ==
    /\ storage \in {NewStorage, NewJournalStorage}
    /\ ret = NoCall
    /\ pruner \in StudyPruners
    /\ \E n \in 0..MaxN, objective \in Objectives :
          optimize = [pc |-> "loop", n_trials |-> n, i |-> 0, trial_id |-> None,
                      value |-> None, calls |-> 0, exc |-> "none",
                      objective |-> objective]

\* trial.report(value, step), the first statement of the objective.
Run_report ==
    /\ optimize.pc = "objective"
    /\ optimize.objective.kind = "pruned"
    /\ optimize.calls = 0
    /\ ObjectiveCalled("report", optimize.trial_id,
                       Trial_report(storage, optimize.trial_id,
                                    optimize.objective.value, optimize.objective.step),
                       FALSE)
    /\ UNCHANGED pruner

\* raise TrialPruned(), after the report.
Run_raise_TrialPruned ==
    /\ optimize.pc = "objective"
    /\ optimize.objective.kind = "pruned"
    /\ optimize.calls = 1
    /\ PrunedValueSet(ExceptTrialPruned(storage, optimize.trial_id))
    /\ UNCHANGED pruner

\* return value: self.storage.set_trial_value(trial_id, value)
Run_return ==
    /\ optimize.pc = "objective"
    /\ optimize.objective.kind = "constant"
    /\ ValueSet(optimize.objective.value,
                set_trial_value(storage, optimize.trial_id, optimize.objective.value))
    /\ UNCHANGED pruner

NextRun ==
    \/ Optimize_create_new_trial
    \/ Run_report
    \/ Run_raise_TrialPruned
    \/ Optimize_set_state_pruned
    \/ Run_return
    \/ Optimize_set_state_completed
    \/ Optimize_return
    \/ Study_best_trial

\* optimize is one thread of control: it takes its next step as long as it
\* has one.
SpecRun == InitRun /\ [][NextRun]_vars /\ WF_vars(NextRun)

\* optimize has just been called.
Entered(kind) ==
    /\ optimize.pc = "loop"
    /\ optimize.i = 0
    /\ optimize.objective.kind = kind

\* The storage holds n trials, every one in the state given and with the
\* value the objective was made with.
AllTrialsAre(state) ==
    /\ get_all_trials(storage).err = "ok"
    /\ Len(get_all_trials(storage).ret) = optimize.n_trials
    /\ \A k \in 1..Len(get_all_trials(storage).ret) :
          /\ get_all_trials(storage).ret[k].state = state
          /\ get_all_trials(storage).ret[k].value = optimize.objective.value

\* C23: for every n >= 0, value v and step s, any pruner and either storage,
\* optimize(objective, n) with an objective that reports v at step s and
\* raises TrialPruned returns, having created exactly n trials, every one
\* pruned with value v, and none completed.
C23_PrunedRunEndsAllPruned ==
    Entered("pruned") ~> (optimize.pc = "returned" /\ AllTrialsAre("pruned"))

\* optimize has returned from MaxN trials of a JournalStorage, all pruned.
C23_Witness ==
    /\ optimize.pc = "returned"
    /\ optimize.objective.kind = "pruned"
    /\ optimize.n_trials = MaxN
    /\ storage.kind = "JournalStorage"
    /\ AllTrialsAre("pruned")

\* C24: for every n >= 1 and constant c, optimize(objective, n) with an
\* objective without side effects that returns c returns, having created
\* exactly n trials, every one completed with value c, and best_trial.value
\* is c afterwards.
C24_ConstantRunEndsAllCompleted ==
    (Entered("constant") /\ optimize.n_trials >= 1)
    ~> (/\ optimize.pc = "returned"
        /\ AllTrialsAre("completed")
        /\ get_best_trial(storage).err = "ok"
        /\ get_best_trial(storage).ret.value = optimize.objective.value)

\* optimize has returned from MaxN trials, and best_trial was read.
C24_Witness ==
    /\ optimize.pc = "end"
    /\ optimize.objective.kind = "constant"
    /\ optimize.n_trials = MaxN
    /\ ret.op = "best_trial"
    /\ ret.err = "ok"
    /\ AllTrialsAre("completed")

\* --------------------------------------- the journal file and the trials

\* myfile.json holds a record of the operation, with this data.
Durable(st, op, data) ==
    \E k \in 1..Len(st.file) :
       /\ st.file[k].op = OperationValue(op)
       /\ st.file[k].data = data

\* Every effect the trial shows was made by an entry that is in the file.
EffectsAreDurable(st, trial) ==
    /\ trial.value # None
          => Durable(st, "SET_TRIAL_VALUE",
                     [trial_id |-> trial.trial_id, value |-> trial.value])
    /\ trial.state # "running"
          => Durable(st, "SET_TRIAL_STATE",
                     [trial_id |-> trial.trial_id, state |-> trial.state])
    /\ \A step \in DOMAIN trial.intermediate_values :
          Durable(st, "SET_TRIAL_INTERMEDIATE_VALUE",
                  [trial_id |-> trial.trial_id, step |-> step,
                   value |-> trial.intermediate_values[step]])
    /\ \A name \in DOMAIN trial.internal_params :
          Durable(st, "SET_TRIAL_PARAM",
                  [trial_id |-> trial.trial_id, name |-> name,
                   distribution |-> trial.distributions[name],
                   value |-> trial.internal_params[name]])

\* C25: in a JournalStorage, every log entry whose effect is in the trial
\* list has been written to the file: the file holds a record for each trial
\* created and for each value, state, intermediate value and parameter a
\* trial shows, and it holds at least as many records as entries were
\* applied up to the cursor.
C25_DurableBeforeVisible ==
    storage.kind = "JournalStorage"
    => (/\ Len(storage.file) >= storage.next_op_id
        /\ Cardinality({k \in 1..Len(storage.file) :
                          storage.file[k].op = OperationValue("CREATE_NEW_TRIAL")})
              >= Len(storage.trials)
        /\ \A i \in 1..Len(storage.trials) :
              EffectsAreDurable(storage, storage.trials[i]))

\* A read has applied the entries that created, valued and completed a trial.
C25_Witness ==
    /\ storage.kind = "JournalStorage"
    /\ ret.op \in Reads
    /\ Len(storage.trials) >= 1
    /\ storage.trials[1].state = "completed"
    /\ storage.trials[1].value # None
    /\ storage.next_op_id = 3

\* ------------------------------------ Study.optimize, called more than once

\* The trials the optimize calls of the study have created so far.
CreatedSoFar == IF optimize.trial_id = None THEN 0 ELSE optimize.trial_id + 1

\* study.optimize(objective, n) is called again, after a call that returned
\* or that raised and whose error the caller caught.
Optimize_again ==
    /\ optimize.pc \in {"returned", "raised"}
    /\ \E n \in 1..(MaxN - CreatedSoFar) :
          optimize' = [optimize EXCEPT !.pc = "loop", !.n_trials = n, !.i = 0,
                                       !.exc = "none"]
    /\ UNCHANGED <<storage, ret, pruner>>

NextAgain ==
    \/ Optimize_create_new_trial
    \/ Optimize_return
    \/ Objective_report
    \/ Objective_return
    \/ Optimize_set_state_completed
    \/ Objective_raise_TrialPruned
    \/ Optimize_set_state_pruned
    \/ Objective_raise_Exception
    \/ Optimize_again

SpecAgain == InitStudy /\ [][NextAgain]_vars

\* C26: over any sequence of optimize calls on one study, one made after a
\* call that ended with an error too, every trial created earlier is
\* finished when optimize creates a trial: at most one trial of the storage
\* is running.
C26_OneTrialAtATime ==
    Cardinality({i \in 1..Len(storage.trials) :
                   storage.trials[i].state = "running"}) <= 1

====
